---- MODULE Spec2Model ----
(***************************************************************************)
(* A model of abc_graphene_sqlalchemy/fields.py: the filter compiler       *)
(* (create_filter_clause, where_clause), the connection pagination         *)
(* (resolve_connection over graphql_relay's connection_from_list_slice)    *)
(* the connection resolver (connection_resolver, with promises), the query *)
(* builders (get_query), the filter-shape caches, the connection field     *)
(* factory, SQLAlchemyConnectionField's constructor, and registry.py's     *)
(* Registry.                                                               *)
(*                                                                         *)
(* Python values are tagged records [t |-> <type name>, v |-> <payload>].  *)
(* A mapping (dict) is an ordered sequence of <<key, value>> pairs, as     *)
(* dict.items() yields them.  A raised exception is the record             *)
(* [exc |-> <exception class>]; a normal return is [exc |-> "none", ...].  *)
(***************************************************************************)
EXTENDS Integers, Sequences, FiniteSets, TLC

VARIABLES
    filter,     \* where_clause: the `filter` mapping being compiled
    operator,   \* where_clause: the `operator` argument ("and_" or "or_")
    clauses,    \* where_clause: what the call returned or raised
    leaf,       \* create_filter_clause: what the call returned or raised
    cls,        \* the connection field class whose classmethods run
    args,       \* the arguments of the field's resolution call
    required,   \* the keys of field.required of the schema's query field
    store,      \* the rows of the model's table, in the order a query yields them
    resolved,   \* what the parent resolver returned
    promise,    \* the state of the promise the parent resolver returned
    pc,         \* where the resolution call stands
    connection, \* what resolve_connection returned or raised
    returned,   \* what connection_resolver returned
    calls,      \* the values resolve_connection was called with, in order
    argument_cache,     \* fields.argument_cache: name -> argument class
    field_cache,        \* fields.field_cache: name -> field class
    threads,            \* the calls of create_filter_argument/_field under way
    connectionFactory,  \* fields.__connectionFactory
    history,            \* the register/unregister calls made, in order
    _registry           \* Registry._registry: model -> schema type

whereVars == <<filter, operator, clauses, leaf>>

connVars == <<cls, args, required, store, resolved, promise, pc, connection,
              returned, calls>>

moduleVars == <<argument_cache, field_cache, threads, connectionFactory, history,
                _registry>>

vars == <<filter, operator, clauses, leaf, cls, args, required, store, resolved,
          promise, pc, connection, returned, calls, argument_cache, field_cache,
          threads, connectionFactory, history, _registry>>

----------------------------------------------------------------------------
(* Bounds of the model.                                                    *)

\* literal integers in filters are 1..MaxVal; column values are 0..MaxVal
MaxVal == 1
\* a filter node has at most MaxKeys keys
MaxKeys == 2
\* strings stored in a text column have at most MaxStr characters
MaxStr == 2
\* strings given as a filter value have at most MaxPat characters
MaxPat == 1
\* a table or a resolved collection has at most MaxLen rows
MaxLen == 3
\* the counts `first` and `last` are at most MaxCount
MaxCount == 3
\* create_filter_argument / create_filter_field are called by MaxThreads threads
MaxThreads == 2
\* calls on the module's factory, the field constructor and the registry
MaxCalls == 3

----------------------------------------------------------------------------
(* Python values.                                                          *)

PyInt(n)   == [t |-> "int", v |-> n]
PyStr(s)   == [t |-> "str", v |-> s]
PyBool(b)  == [t |-> "bool", v |-> b]
PyUUID(n)  == [t |-> "UUID", v |-> n]
PyFloat(n) == [t |-> "float", v |-> n]
PyList(s)  == [t |-> "list", v |-> s]
PyMap(s)   == [t |-> "Mapping", v |-> s]
PyNone     == [t |-> "NoneType", v |-> 0]

\* isinstance(value, Mapping)
IsMapping(value) == value.t = "Mapping"

\* isinstance(value, (str, int, UUID)); bool is a subclass of int
IsStrIntUUID(value) == value.t \in {"str", "int", "bool", "UUID"}

\* The entity the filters are compiled against: its integer columns, its
\* text column and its UUID column.
IntColumns == {"a", "b", "c"}
StrColumns == {"headline"}
UuidColumns == {"id"}
model == IntColumns \cup StrColumns \cup UuidColumns

Raise(e) == [exc |-> e]
Return(x) == [exc |-> "none", value |-> x]

----------------------------------------------------------------------------
(* SQL expressions, as sqlalchemy builds them.                             *)

\* getattr(model, field) <op> value
BinaryExpression(field, op, value) ==
    [t |-> "binary", column |-> field, op |-> op, right |-> value]

BooleanClauseList(op, cs) == [t |-> "clauselist", operator |-> op, clauses |-> cs]

Grouping(e) == [t |-> "grouping", element |-> e]

\* ClauseElement.self_group(): a clause list is parenthesised unless it has
\* no clauses; a comparison and a Grouping are returned as they are.
self_group(e) ==
    IF e.t = "clauselist" /\ Len(e.clauses) > 0 THEN Grouping(e) ELSE e

\* and_(*cs) / or_(*cs): one clause is returned as itself, otherwise a
\* clause list of the given clauses (no clause here is a True_/False_
\* constant, and every argument is already grouped or a comparison).
BoolOp(op, cs) ==
    IF Len(cs) = 1 THEN cs[1] ELSE BooleanClauseList(op, cs)

FString_without_wildcards(value) ==
    CASE value.t = "str" -> value

\* f"%{value}%"
FString(value) ==
    CASE value.t = "str" -> PyStr(<<"%">> \o value.v \o <<"%">>)

----------------------------------------------------------------------------
(* create_filter_clause(model, field, value)                               *)

\* the clause the lambda builds when it is called: getattr(model, field)
\* raises AttributeError when the model has no such attribute
Lambda(m, field, op, value) ==
    [t |-> "lambda", model |-> m, field |-> field, op |-> op, right |-> value]

EmptyTuple == [t |-> "tuple"]

create_filter_clause_unknown_raises(m, field, value) ==
    IF IsMapping(value) THEN
        IF Len(value.v) # 1 THEN Raise("ValueError")
        ELSE LET op == value.v[1][1]
                 v  == value.v[1][2]
             IN CASE op = "equal" -> Return(Lambda(m, field, "==", v))
                  [] op = "notEqual" -> Return(Lambda(m, field, "!=", v))
                  [] op = "lessThan" -> Return(Lambda(m, field, "<", v))
                  [] op = "greaterThan" -> Return(Lambda(m, field, ">", v))
                  [] op = "like" -> Return(Lambda(m, field, "lower_like", v))
                  [] op = "in" -> Return(Lambda(m, field, "in_", v))
                  [] OTHER -> Raise("NotImplementedError")
    ELSE IF IsStrIntUUID(value) THEN Return(Lambda(m, field, "==", value))
    ELSE Raise("NotImplementedError")

create_filter_clause(m, field, value) ==
    IF IsMapping(value) THEN
        \* [(operator, value)] = value.items()
        IF Len(value.v) # 1 THEN Raise("ValueError")
        ELSE LET op == value.v[1][1]
                 v  == value.v[1][2]
             IN CASE op = "equal" -> Return(Lambda(m, field, "==", v))
                  [] op = "notEqual" -> Return(Lambda(m, field, "!=", v))
                  [] op = "lessThan" -> Return(Lambda(m, field, "<", v))
                  [] op = "greaterThan" -> Return(Lambda(m, field, ">", v))
                  [] op = "like" -> Return(Lambda(m, field, "lower_like", v))
                  [] op = "in" -> Return(Lambda(m, field, "in_", v))
                  [] OTHER -> Return(EmptyTuple)
    ELSE IF IsStrIntUUID(value) THEN Return(Lambda(m, field, "==", value))
    ELSE Raise("NotImplementedError")

\* clause(): calling what create_filter_clause returned
Call(clause) ==
    IF clause.t # "lambda" THEN Raise("TypeError")
    ELSE IF clause.field \notin clause.model THEN Raise("AttributeError")
    ELSE IF clause.op = "lower_like"
         THEN Return(BinaryExpression(clause.field, "lower_like", FString(clause.right)))
    ELSE Return(BinaryExpression(clause.field, clause.op, clause.right))

----------------------------------------------------------------------------
(* where_clause(model, filter, operator=and_)                              *)

RECURSIVE where_clause(_, _, _)
RECURSIVE where_loop(_, _, _, _, _)

\* what operator is handed to the recursive call for a combinator key
nested_operator_always_and(filter_name) == "and_"

nested_operator(filter_name) == IF filter_name = "or" THEN "or_" ELSE "and_"

\* the key's sub-clause: a nested where_clause or a called filter clause
sub_clause(m, filter_name, filter_value) ==
    IF filter_name \in {"or", "and"} /\ IsMapping(filter_value)
    THEN where_clause(m, filter_value.v, nested_operator(filter_name))
    ELSE LET made == create_filter_clause(m, filter_name, filter_value)
         IN IF made.exc # "none" THEN made ELSE Call(made.value)

\* the for loop from its i-th item on, `acc` being `clauses` so far
where_loop(m, flt, op, i, acc) ==
    IF i > Len(flt) THEN Return(self_group(acc))
    ELSE LET sub == sub_clause(m, flt[i][1], flt[i][2])
         IN IF sub.exc # "none" THEN sub
            ELSE where_loop(m, flt, op, i + 1, BoolOp(op, <<acc, sub.value>>))

where_clause_ignores_operator(m, flt, op) ==
    where_loop(m, flt, "and_", 1, BooleanClauseList("and_", <<>>))

where_clause(m, flt, op) == where_loop(m, flt, op, 1, BooleanClauseList(op, <<>>))

----------------------------------------------------------------------------
(* What a compiled clause selects.                                         *)

\* func.lower on the characters of the model
LowerChar(ch) == IF ch = "A" THEN "a" ELSE ch
Lower(s) == [i \in 1..Len(s) |-> LowerChar(s[i])]

\* SQL LIKE: % matches any run of characters, _ any one character
RECURSIVE LikeMatch(_, _)
LikeMatch(s, p) ==
    IF p = <<>> THEN s = <<>>
    ELSE IF Head(p) = "%"
         THEN LikeMatch(s, Tail(p)) \/ (s # <<>> /\ LikeMatch(Tail(s), p))
    ELSE s # <<>> /\ (Head(p) = "_" \/ Head(p) = Head(s)) /\ LikeMatch(Tail(s), Tail(p))

\* a bound parameter as the database compares it: a bool is the integer 0/1
AsSql(value) ==
    IF value.t = "bool" THEN PyInt(IF value.v THEN 1 ELSE 0) ELSE value

Compare(left, op, right) ==
    CASE op = "==" -> left = AsSql(right)
      [] op = "!=" -> left # AsSql(right)
      [] op = "<" -> left.v < AsSql(right).v
      [] op = ">" -> left.v > AsSql(right).v
      [] op = "lower_like" -> LikeMatch(Lower(left.v), Lower(right.v))
      [] op = "in_" -> \E i \in 1..Len(right.v) : left = AsSql(right.v[i])

\* a clause that compiles to no SQL text: a clause list without clauses, or
\* one whose clauses all compile to no text
RECURSIVE IsBlank(_)
IsBlank(e) ==
    /\ e.t = "clauselist"
    /\ \A i \in 1..Len(e.clauses) : IsBlank(e.clauses[i])

\* whether the row satisfies the clause; blank clauses of a list are skipped
RECURSIVE Holds(_, _)
Holds(e, row) ==
    CASE e.t = "binary" -> Compare(row[e.column], e.op, e.right)
      [] e.t = "grouping" -> Holds(e.element, row)
      [] e.t = "clauselist" ->
            IF e.operator = "and_"
            THEN \A i \in 1..Len(e.clauses) :
                    IsBlank(e.clauses[i]) \/ Holds(e.clauses[i], row)
            ELSE \E i \in 1..Len(e.clauses) :
                    ~IsBlank(e.clauses[i]) /\ Holds(e.clauses[i], row)

\* query.filter(clause): a blank clause adds no WHERE
Selects(e, row) == IsBlank(e) \/ Holds(e, row)

----------------------------------------------------------------------------
(* Inputs: filter trees over the integer columns.                          *)

NotCalled == [exc |-> "pending"]

Absent == [t |-> "absent", v |-> 0]

\* no resolution call is modelled
NoConnection ==
    /\ cls = "UnsortedSQLAlchemyConnectionField"
    /\ args = [first |-> Absent, last |-> Absent, after |-> Absent,
               before |-> Absent, where |-> Absent, filter |-> Absent]
    /\ required = {}
    /\ store = <<>>
    /\ resolved = PyNone
    /\ promise = [state |-> "none"]
    /\ pc = "idle"
    /\ connection = NotCalled
    /\ returned = NotCalled
    /\ calls = <<>>

\* the module state as the import leaves it; no call on it is modelled
NoModuleState ==
    /\ argument_cache = <<>>
    /\ field_cache = <<>>
    /\ threads = <<>>
    /\ connectionFactory = "UnsortedSQLAlchemyConnectionField"
    /\ history = <<>>
    /\ _registry = <<>>

IntLits == {PyInt(n) : n \in 1..MaxVal}

\* a field key with a bare integer (sugar for equal)
IntEntries == {<<f, v>> : f \in IntColumns, v \in IntLits}

Keys(flt) == {flt[i][1] : i \in 1..Len(flt)}

\* the mappings of 1..n of the entries E: a dict holds a key once
KeySeqs(E, n) ==
    UNION {{s \in [1..k -> E] : Cardinality(Keys(s)) = k} : k \in 1..n}

InsertAt(s, i, e) == SubSeq(s, 1, i) \o <<e>> \o SubSeq(s, i + 1, Len(s))

\* nodes of field keys only
Node0 == KeySeqs(IntEntries, MaxKeys)

\* E's mappings with one `and`/`or` key over a node of `children` among them
WithCombinator(children) ==
    UNION {{InsertAt(s, i, <<c, PyMap(child)>>) :
                i \in 0..Len(s), c \in {"and", "or"}, child \in children} :
           s \in {<<>>} \cup KeySeqs(IntEntries, MaxKeys - 1)}

Node1 == Node0 \cup WithCombinator(Node0)

\* the filters compiled: up to two levels of combinators
TreeFilters ==
    Node1 \cup {<<<<c, PyMap(child)>>>> : c \in {"and", "or"},
                                        child \in WithCombinator(Node0)}

TreeRows == [IntColumns -> {PyInt(n) : n \in 0..MaxVal}]

----------------------------------------------------------------------------
(* The compilation of a filter tree.                                       *)

InitWhere ==
    /\ filter \in TreeFilters
    /\ operator \in {"and_", "or_"}
    /\ clauses = NotCalled
    /\ leaf = NotCalled
    /\ NoConnection
    /\ NoModuleState

\* clauses = where_clause(model, filter, operator)
WhereClause ==
    /\ clauses = NotCalled
    /\ clauses' = where_clause(model, filter, operator)
    /\ UNCHANGED <<filter, operator, leaf>>
    /\ UNCHANGED connVars
    /\ UNCHANGED moduleVars

NextWhere == WhereClause

SpecWhere == InitWhere /\ [][NextWhere]_vars

----------------------------------------------------------------------------
(* C1, C2: how the keys of a node are joined.                              *)

IsCombinator(entry) == entry[1] \in {"and", "or"} /\ IsMapping(entry[2])

OwnCombinator(key) == IF key = "or" THEN "or_" ELSE "and_"

\* the rows a tree of bare-integer leaves is meant to select when the node
\* joins its own keys with `join` ("and_" or "or_") and a child node joins
\* its keys with AND (allAnd) or with the combinator key it sits under
RECURSIVE JoinedBy(_, _, _, _)
JoinedBy(flt, join, allAnd, row) ==
    LET childJoin(key) == IF allAnd THEN "and_" ELSE OwnCombinator(key)
        sub(i) == IF IsCombinator(flt[i])
                  THEN JoinedBy(flt[i][2].v, childJoin(flt[i][1]), allAnd, row)
                  ELSE row[flt[i][1]] = flt[i][2]
    IN IF join = "and_" THEN \A i \in 1..Len(flt) : sub(i)
                        ELSE \E i \in 1..Len(flt) : sub(i)

Compiled == clauses.exc = "none"

\* C1 as stated: every node joins its own keys with AND, whether it is the
\* top-level node or the child of an `and` or an `or` key.
C1_AllNodesAnd ==
    (Compiled /\ operator = "and_") =>
        \A row \in TreeRows :
            Selects(clauses.value, row) <=> JoinedBy(filter, "and_", TRUE, row)

\* C1 (amended): a node joins the sub-predicates of its own keys with the
\* operator it is compiled under, whatever the order of the keys: AND for
\* the top-level node (operator and_) and the child of an `and` key, OR for
\* the child of an `or` key (and for a call with operator or_).
C1_NodesJoinedByOwnOperator ==
    Compiled =>
        \A row \in TreeRows :
            Selects(clauses.value, row) <=> JoinedBy(filter, operator, FALSE, row)

\* an `or` child with two keys was compiled, and a row that satisfies one
\* of its keys but not the other is selected
C1_Witness ==
    /\ Compiled /\ operator = "and_" /\ Len(filter) = 1
    /\ filter[1][1] = "or" /\ IsMapping(filter[1][2])
    /\ Len(filter[1][2].v) = 2
    /\ \E row \in TreeRows :
          /\ Selects(clauses.value, row)
          /\ ~JoinedBy(filter[1][2].v, "and_", TRUE, row)

\* {or: {a: v1, and: {b: v2, c: v3}}}
IsC2Shape(flt) ==
    /\ Len(flt) = 1 /\ flt[1][1] = "or" /\ IsMapping(flt[1][2])
    /\ LET inner == flt[1][2].v
       IN /\ Len(inner) = 2
          /\ inner[1][1] \in IntColumns /\ ~IsMapping(inner[1][2])
          /\ inner[2][1] = "and" /\ IsMapping(inner[2][2])
          /\ LET conj == inner[2][2].v
             IN /\ Len(conj) = 2
                /\ \A i \in 1..2 : conj[i][1] \in IntColumns /\ ~IsMapping(conj[i][2])

\* C2: {or: {a: v1, and: {b: v2, c: v3}}} selects exactly the rows where
\* a = v1 OR (b = v2 AND c = v3).
C2_NestedOrAnd ==
    (Compiled /\ operator = "and_" /\ IsC2Shape(filter)) =>
        LET inner == filter[1][2].v
            conj == inner[2][2].v
        IN \A row \in TreeRows :
              Selects(clauses.value, row) <=>
                 \/ row[inner[1][1]] = inner[1][2]
                 \/ /\ row[conj[1][1]] = conj[1][2]
                    /\ row[conj[2][1]] = conj[2][2]

\* such a filter was compiled and selects a row where a # v1 and one where
\* only b = v2 holds is rejected
C2_Witness ==
    /\ Compiled /\ operator = "and_" /\ IsC2Shape(filter)
    /\ LET inner == filter[1][2].v
           conj == inner[2][2].v
       IN /\ \E row \in TreeRows :
                /\ row[inner[1][1]] # inner[1][2]
                /\ Selects(clauses.value, row)
          /\ \E row \in TreeRows :
                /\ row[conj[1][1]] = conj[1][2]
                /\ ~Selects(clauses.value, row)

----------------------------------------------------------------------------
(* Inputs: filter leaves of every shape.                                   *)

Chars == {"a", "A", "%", "_"}

\* the strings of at most n characters
Strs(n) == UNION {[1..k -> Chars] : k \in 0..n}

\* the lists of at most two of the values S
Lists(S) == {<<>>} \cup {<<x>> : x \in S} \cup {<<x, y>> : x \in S, y \in S}

StrLits == {PyStr(s) : s \in Strs(MaxPat)}
UuidLits == {PyUUID(n) : n \in 1..MaxVal}

Only(op, v) == PyMap(<<<<op, v>>>>)

\* what a caller can give for an integer, a text and a UUID column
IntValues ==
    IntLits \cup {PyBool(TRUE), PyBool(FALSE)}
    \cup {Only(op, v) : op \in {"equal", "notEqual", "lessThan", "greaterThan", "contains"},
                        v \in IntLits}
    \cup {Only("in", PyList(l)) : l \in Lists(IntLits)}

StrValues ==
    StrLits
    \cup {Only(op, v) : op \in {"equal", "notEqual", "like", "startsWith"}, v \in StrLits}
    \cup {Only("in", PyList(l)) : l \in Lists(StrLits)}

UuidValues ==
    UuidLits
    \cup {Only(op, v) : op \in {"equal", "notEqual"}, v \in UuidLits}
    \cup {Only("in", PyList(l)) : l \in Lists(UuidLits)}

\* values that are no single-operator mapping and no str/int/UUID scalar
OddValues ==
    {PyFloat(1), PyNone, PyList(<<>>), PyList(<<PyInt(1)>>), PyMap(<<>>),
     PyMap(<<<<"equal", PyInt(1)>>, <<"notEqual", PyInt(1)>>>>)}

LeafEntries ==
    {<<"a", v>> : v \in IntValues \cup OddValues}
    \cup {<<"headline", v>> : v \in StrValues \cup OddValues}
    \cup {<<"id", v>> : v \in UuidValues \cup OddValues}

\* a leaf alone, or beside a key of another column
LeafFilters ==
    {<<e>> : e \in LeafEntries}
    \cup {<<e, <<"b", PyInt(1)>>>> : e \in LeafEntries}
    \cup {<<<<"b", PyInt(1)>>, e>> : e \in LeafEntries}

\* the values a column can hold
ColumnValues(f) ==
    IF f \in IntColumns THEN {PyInt(n) : n \in 0..MaxVal}
    ELSE IF f \in StrColumns THEN {PyStr(s) : s \in Strs(MaxStr)}
    ELSE {PyUUID(n) : n \in 0..MaxVal}

\* the rows that hold 0 in b, c and x in column f
RowsOf(f) ==
    {[col \in model |-> IF col = f THEN x
                        ELSE IF col \in IntColumns THEN PyInt(0)
                        ELSE IF col \in StrColumns THEN PyStr(<<>>)
                        ELSE PyUUID(0)] : x \in ColumnValues(f)}

LeafRows == UNION {RowsOf(f) : f \in {"a", "b", "headline", "id"}}

----------------------------------------------------------------------------
(* The compilation of a leaf, alone and inside where_clause.               *)

InitLeaf ==
    /\ filter \in LeafFilters
    /\ operator = "and_"
    /\ clauses = NotCalled
    /\ leaf = NotCalled
    /\ NoConnection
    /\ NoModuleState

\* leaf = create_filter_clause(model, field, value) for the first key
CreateFilterClause ==
    /\ leaf = NotCalled
    /\ leaf' = create_filter_clause(model, filter[1][1], filter[1][2])
    /\ UNCHANGED <<filter, operator, clauses>>
    /\ UNCHANGED connVars
    /\ UNCHANGED moduleVars

NextLeaf == CreateFilterClause \/ WhereClause

SpecLeaf == InitLeaf /\ [][NextLeaf]_vars

----------------------------------------------------------------------------
(* C3, C4, C5: what a leaf compiles to.                                    *)

RecognizedOperators == {"equal", "notEqual", "lessThan", "greaterThan", "like", "in"}

\* a single-key mapping whose operator key is not a recognized one
IsUnknownOperator(value) ==
    IsMapping(value) /\ Len(value.v) = 1 /\ value.v[1][1] \notin RecognizedOperators

IsRecognizedOperator(value) ==
    IsMapping(value) /\ Len(value.v) = 1 /\ value.v[1][1] \in RecognizedOperators

\* the filter without the keys that hold an unrecognized operator
RECURSIVE WithoutUnknown(_)
WithoutUnknown(flt) ==
    IF flt = <<>> THEN <<>>
    ELSE IF IsUnknownOperator(Head(flt)[2]) THEN WithoutUnknown(Tail(flt))
    ELSE <<Head(flt)>> \o WithoutUnknown(Tail(flt))

HasUnknownOperator(flt) == \E i \in 1..Len(flt) : IsUnknownOperator(flt[i][2])

WhereCalled == clauses # NotCalled
LeafCalled == leaf # NotCalled

\* C3: a key with an unrecognized operator raises no error and contributes
\* no predicate: the filter compiles as if the key were absent.
C3_UnknownOperatorDropped ==
    (WhereCalled /\ HasUnknownOperator(filter)) =>
        /\ clauses.exc = "none"
        /\ LET rest == where_clause(model, WithoutUnknown(filter), operator)
           IN \A row \in LeafRows :
                 Selects(clauses.value, row) <=> Selects(rest.value, row)

\* what the code does there: calling the empty tuple raises TypeError
C3_UnknownOperatorRaisesTypeError ==
    (WhereCalled /\ HasUnknownOperator(filter)) => clauses.exc = "TypeError"

LeafValue == filter[1][2]

\* C4 as stated: every value that is neither a mapping with exactly one key
\* nor a bare str/int/UUID (a boolean, float, None, list, a mapping with no
\* or with two keys) fails with NotImplementedError, and a bare
\* str/int/UUID does not.
C4_OddValueNotImplemented ==
    LeafCalled =>
        IF (IsMapping(LeafValue) /\ Len(LeafValue.v) = 1)
           \/ LeafValue.t \in {"str", "int", "UUID"}
        THEN leaf.exc # "NotImplementedError"
        ELSE leaf.exc = "NotImplementedError"

\* C4 (amended): create_filter_clause raises NotImplementedError exactly
\* for a value that is neither a mapping nor a str, int (a bool is an int)
\* or UUID; a mapping with no key or with more than one raises ValueError;
\* a bare str/int/bool/UUID and a single-key mapping raise nothing.
C4_NotImplementedForNonScalar ==
    LeafCalled =>
        /\ leaf.exc = "NotImplementedError"
              <=> (~IsMapping(LeafValue)
                   /\ LeafValue.t \notin {"str", "int", "bool", "UUID"})
        /\ leaf.exc = "ValueError"
              <=> (IsMapping(LeafValue) /\ Len(LeafValue.v) # 1)
        /\ leaf.exc \in {"none", "NotImplementedError", "ValueError"}

\* a bare float was given for a column and NotImplementedError was raised
C4_Witness ==
    /\ LeafCalled
    /\ LeafValue.t = "float"
    /\ leaf.exc = "NotImplementedError"

\* x contains v, ignoring case
ContainsIgnoringCase(x, v) ==
    \E i \in 0..(Len(x) - Len(v)) :
        SubSeq(Lower(x), i + 1, i + Len(v)) = Lower(v)

HasWildcard(v) == \E i \in 1..Len(v) : v[i] \in {"%", "_"}

\* `x op v`, with like as a case-insensitive substring match
Means(x, op, v) ==
    CASE op = "equal" -> x = AsSql(v)
      [] op = "notEqual" -> x # AsSql(v)
      [] op = "lessThan" -> x.v < v.v
      [] op = "greaterThan" -> x.v > v.v
      [] op = "like" -> ContainsIgnoringCase(x.v, v.v)
      [] op = "in" -> AsSql(x) \in {AsSql(v.v[i]) : i \in 1..Len(v.v)}

\* the operator and operand of a leaf value; a bare scalar is `equal`
LeafOp(value) == IF IsMapping(value) THEN value.v[1][1] ELSE "equal"
LeafOperand(value) == IF IsMapping(value) THEN value.v[1][2] ELSE value

IsGoodLeaf(value) ==
    IsRecognizedOperator(value) \/ value.t \in {"str", "int", "UUID"}

----------------------------------------------------------------------------
(* graphql_relay.connection.arrayconnection, as resolve_connection uses it *)

Max(S) == CHOOSE x \in S : \A y \in S : y <= x
Min(S) == CHOOSE x \in S : \A y \in S : x <= y

IsInt(x) == x.t = "int"

\* d.get(key): None when the key is absent
Get(x) == IF x = Absent THEN PyNone ELSE x

\* offset_to_cursor(offset): base64("arrayconnection:" + str(offset))
offset_to_cursor(offset) == PyStr(<<"arrayconnection:", offset>>)

\* cursor_to_offset(cursor): the integer after the prefix, or None
cursor_to_offset(cursor) ==
    IF cursor.v[1] = "arrayconnection:" THEN PyInt(cursor.v[2]) ELSE PyNone

\* get_offset_with_default(cursor, default_offset)
get_offset_with_default(cursor, default_offset) ==
    IF cursor.t # "str" THEN default_offset
    ELSE LET offset == cursor_to_offset(cursor)
         IN IF IsInt(offset) THEN offset.v ELSE default_offset

\* list_slice[lo:hi] for lo, hi >= 0, of a list or of a Query
PySlice(list_slice, lo, hi) == SubSeq(list_slice, lo + 1, Min({hi, Len(list_slice)}))

Edge(node, cursor) == [node |-> node, cursor |-> cursor]

has_previous_page_when_after(last, start_offset, lower_bound, after) ==
    (IsInt(last) /\ start_offset > lower_bound) \/ (after.t = "str" /\ start_offset > 0)

\* has_previous_page=isinstance(last, int) and start_offset > lower_bound
has_previous_page(last, start_offset, lower_bound, after) ==
    IsInt(last) /\ start_offset > lower_bound

end_offset_of_first_exclusive(end_offset, start_offset, first) ==
    IF IsInt(first) THEN Min({end_offset, start_offset + first.v - 1}) ELSE end_offset

\* if isinstance(first, int): end_offset = min(end_offset, start_offset + first)
end_offset_of_first(end_offset, start_offset, first) ==
    IF IsInt(first) THEN Min({end_offset, start_offset + first.v}) ELSE end_offset

\* connection_from_list_slice(list_slice, args, slice_start=0,
\*     list_length=_len, list_slice_length=_len, ...)
connection_from_list_slice(list_slice, a, list_length) ==
    LET before == Get(a.before)
        after == Get(a.after)
        first == Get(a.first)
        last == Get(a.last)
        slice_start == 0
        list_slice_length == list_length
        slice_end == slice_start + list_slice_length
        before_offset == get_offset_with_default(before, list_length)
        after_offset == get_offset_with_default(after, -1)
        start_offset0 == Max({slice_start - 1, after_offset, -1}) + 1
        end_offset0 == Min({slice_end, before_offset, list_length})
        end_offset == end_offset_of_first(end_offset0, start_offset0, first)
        start_offset == IF IsInt(last) THEN Max({start_offset0, end_offset - last.v})
                                       ELSE start_offset0
        slice == PySlice(list_slice, Max({start_offset - slice_start, 0}),
                         list_slice_length - (slice_end - end_offset))
        edges == [i \in 1..Len(slice) |->
                     Edge(slice[i], offset_to_cursor(start_offset + (i - 1)))]
        lower_bound == IF after.t = "str" THEN after_offset + 1 ELSE 0
        upper_bound == IF before.t = "str" THEN before_offset ELSE list_length
    IN [edges |-> edges,
        page_info |->
            [start_cursor |-> IF Len(edges) > 0 THEN edges[1].cursor ELSE PyNone,
             end_cursor |-> IF Len(edges) > 0 THEN edges[Len(edges)].cursor ELSE PyNone,
             has_previous_page |-> has_previous_page(last, start_offset, lower_bound, after),
             has_next_page |-> IsInt(first) /\ end_offset < upper_bound]]

----------------------------------------------------------------------------
(* get_query and resolve_connection of the two connection field classes.   *)

Unsorted == "UnsortedSQLAlchemyConnectionField"
Filtered == "SQLAlchemyFilteredConnectionField"

Query(rows) == [t |-> "Query", v |-> rows]

\* bool(x) of an argument: a non-empty mapping
Truthy(x) == x.t = "Mapping" /\ Len(x.v) > 0

\* cls.get_query(model, info, **args): the session's query of the model;
\* the filtered field adds the compiled `where` to it (no sort is given).
get_query(c, m, rows, a) ==
    IF c = Filtered /\ Truthy(a.where)
    THEN LET clause == where_clause(m, a.where.v, "and_")
         IN IF clause.exc # "none" THEN clause
            ELSE Return(Query(SelectSeq(rows, LAMBDA row : Selects(clause.value, row))))
    ELSE Return(Query(rows))

\* the orders list(resolved) can have: any order of a set's elements
ListOrders(r) ==
    IF r.t = "set"
    THEN {o \in [1..Cardinality(r.v) -> r.v] : \A i, j \in DOMAIN o : o[i] = o[j] => i = j}
    ELSE {<<>>}

missing_filters_of_where(a, req) ==
    req \ (IF a.where = Absent THEN {} ELSE Keys(a.where.v))

\* set(required_filters) - set(filters.keys()), the filters being the
\* argument named `filter`, or {} without it
missing_filters(a, req) ==
    req \ (IF a.filter = Absent THEN {} ELSE Keys(a.filter.v))

is_none_or_empty(r) == r.t = "NoneType" \/ (r.t = "list" /\ r.v = <<>>)

\* if resolved is None
is_none(r) == r.t = "NoneType"

\* _len: resolved.count() of a Query, len(resolved) of a list or a set
length_of(q) == IF q.t = "set" THEN Cardinality(q.v) ELSE Len(q.v)

\* if isinstance(resolved, set): resolved = list(resolved)
listed(q, order) == IF q.t = "set" THEN PyList(order) ELSE q

\* the store accesses of a pagination: a Query is counted, then sliced
accesses(q) == IF q.t = "Query" THEN <<"count", "slice">> ELSE <<>>

\* the connection with its `iterable` and `length` attributes set
Envelope(conn, it, len) ==
    [edges |-> conn.edges, page_info |-> conn.page_info,
     iterable |-> it, length |-> len]

\* resolve_connection from `_len = ...` on: a value without a length
\* raises TypeError
paginate(q, a, order, effects) ==
    IF q.t \notin {"Query", "list", "set"}
    THEN [exc |-> "TypeError", payload |-> {}, effects |-> effects]
    ELSE [exc |-> "none",
          value |-> Envelope(connection_from_list_slice(listed(q, order).v, a, length_of(q)),
                             listed(q, order), length_of(q)),
          effects |-> effects \o accesses(q)]

\* resolve_connection once the query is built, or has raised
paginate_built(built, a, order) ==
    IF built.exc # "none"
    THEN [exc |-> built.exc, payload |-> {}, effects |-> <<"get_query">>]
    ELSE paginate(built.value, a, order, <<"get_query">>)

\* UnsortedSQLAlchemyConnectionField.resolve_connection, and the filtered
\* field's, which checks the required filters first.  `order` is the order
\* list(resolved) gives a set.  The result carries the store accesses made.
resolve_connection(c, m, rows, a, req, r, order) ==
    IF c = Filtered /\ missing_filters(a, req) # {}
    THEN [exc |-> "Exception", payload |-> missing_filters(a, req), effects |-> <<>>]
    ELSE IF is_none(r) THEN paginate_built(get_query(c, m, rows, a), a, order)
    ELSE paginate(r, a, order, <<>>)

----------------------------------------------------------------------------
(* Inputs of a resolution: tables, resolved collections, arguments.        *)

PySet(S) == [t |-> "set", v |-> S]

\* the i-th row of the table
Row(i) ==
    [col \in model |-> IF col \in IntColumns THEN PyInt(i % (MaxVal + 1))
                       ELSE IF col \in StrColumns THEN PyStr(<<>>)
                       ELSE PyUUID(i)]

Table(n) == [i \in 1..n |-> Row(i)]

Tables == {Table(n) : n \in 0..MaxLen}

\* what a parent resolver can hand over: None, a list, a set or a Query
ResolvedValues ==
    {PyNone} \cup {PyList(t) : t \in Tables} \cup {Query(t) : t \in Tables}
    \cup {PySet({t[i] : i \in DOMAIN t}) : t \in Tables}

Counts == {Absent} \cup {PyInt(k) : k \in 0..MaxCount}
Cursors == {offset_to_cursor(i) : i \in 0..(MaxLen - 1)}

PageArgs ==
    {[first |-> f, last |-> l, after |-> af, before |-> b,
      where |-> Absent, filter |-> Absent] :
        f \in Counts, l \in Counts,
        af \in {Absent, PyStr(<<"garbage", 0>>)} \cup Cursors,
        b \in {Absent} \cup Cursors}

----------------------------------------------------------------------------
(* resolve_connection called on its own.                                   *)

InitPage ==
    /\ filter = <<>> /\ operator = "and_" /\ clauses = NotCalled /\ leaf = NotCalled
    /\ NoModuleState
    /\ cls = Unsorted
    /\ args \in PageArgs
    /\ required = {}
    /\ resolved \in ResolvedValues
    /\ store \in IF resolved = PyNone THEN Tables ELSE {Table(MaxLen)}
    /\ promise = [state |-> "none"]
    /\ pc = "idle"
    /\ connection = NotCalled
    /\ returned = NotCalled
    /\ calls = <<>>

\* connection = cls.resolve_connection(connection_type, model, info, args, resolved)
ResolveConnection ==
    /\ pc = "idle"
    /\ \E order \in ListOrders(resolved) :
          connection' = resolve_connection(cls, model, store, args, required,
                                           resolved, order)
    /\ calls' = Append(calls, [value |-> resolved, promise |-> promise.state])
    /\ pc' = "done"
    /\ UNCHANGED <<cls, args, required, store, resolved, promise, returned>>
    /\ UNCHANGED whereVars
    /\ UNCHANGED moduleVars

NextPage == ResolveConnection

SpecPage == InitPage /\ [][NextPage]_vars

----------------------------------------------------------------------------
(* C6, C7: forward pagination.                                             *)

Paginated == connection # NotCalled /\ connection.exc = "none"

\* the full collection that was paginated
Collection == connection.value.iterable.v

\* the collection is the one handed in: the resolved list or Query, the
\* table when None was resolved, the elements of the resolved set
CollectionOf(r) ==
    CASE r.t \in {"list", "Query"} -> Collection = r.v
      [] r.t = "NoneType" -> Collection = store
      [] r.t = "set" -> /\ {Collection[i] : i \in DOMAIN Collection} = r.v
                        /\ Len(Collection) = Cardinality(r.v)

\* the nodes of the edges returned
Nodes == [i \in 1..Len(connection.value.edges) |-> connection.value.edges[i].node]

\* the offsets the edge cursors decode to
Offsets ==
    [i \in 1..Len(connection.value.edges) |->
        cursor_to_offset(connection.value.edges[i].cursor).v]

\* the elements at offsets lo..hi of the collection, and those offsets
ElementsAt(lo, hi) == SubSeq(Collection, lo + 1, hi + 1)
OffsetsFrom(lo, hi) == [i \in 1..(IF hi >= lo THEN hi - lo + 1 ELSE 0) |-> lo + i - 1]

OnlyFirst ==
    /\ IsInt(args.first)
    /\ args.after = Absent /\ args.before = Absent /\ args.last = Absent

\* C6: first=k alone returns the first min(k, N) elements in order, with
\* cursors of the offsets 0..min(k,N)-1, hasNextPage = (k < N) and
\* hasPreviousPage = false.
C6_FirstK ==
    (Paginated /\ OnlyFirst) =>
        LET N == Len(Collection)
            k == args.first.v
        IN /\ CollectionOf(resolved)
           /\ Nodes = ElementsAt(0, Min({k, N}) - 1)
           /\ Len(Nodes) = Min({k, N})
           /\ Offsets = OffsetsFrom(0, Min({k, N}) - 1)
           /\ connection.value.page_info.has_next_page = (k < N)
           /\ connection.value.page_info.has_previous_page = FALSE

\* a page that ends before the end of a collection was returned
C6_Witness ==
    /\ Paginated /\ OnlyFirst
    /\ args.first.v > 1 /\ args.first.v < Len(Collection)
    /\ Len(Nodes) = args.first.v
    /\ connection.value.page_info.has_next_page

AfterAndFirst ==
    /\ IsInt(args.first)
    /\ args.after \in Cursors
    /\ cursor_to_offset(args.after).v < Len(Collection)
    /\ args.before = Absent /\ args.last = Absent

\* C7 as stated: after=cursor(i), first=k returns the elements at offsets
\* i+1 .. min(i+k, N)-1, and hasPreviousPage is true (i+1 > 0 always).
C7_AfterFirstAsStated ==
    (Paginated /\ AfterAndFirst) =>
        LET N == Len(Collection)
            k == args.first.v
            i == cursor_to_offset(args.after).v
        IN /\ Nodes = ElementsAt(i + 1, Min({i + k, N}) - 1)
           /\ (i + 1 > 0) => connection.value.page_info.has_previous_page

\* C7 (amended): after=cursor(i), first=k returns the elements at offsets
\* i+1 .. min(i+1+k, N)-1, with cursors of those offsets, and
\* hasPreviousPage is false, as `last` is not given.
C7_AfterFirst ==
    (Paginated /\ AfterAndFirst) =>
        LET N == Len(Collection)
            k == args.first.v
            i == cursor_to_offset(args.after).v
        IN /\ CollectionOf(resolved)
           /\ Nodes = ElementsAt(i + 1, Min({i + 1 + k, N}) - 1)
           /\ Offsets = OffsetsFrom(i + 1, Min({i + 1 + k, N}) - 1)
           /\ connection.value.page_info.has_previous_page = FALSE

\* a page of k >= 1 elements after offset i was returned from inside the
\* collection
C7_Witness ==
    /\ Paginated /\ AfterAndFirst
    /\ args.first.v >= 1
    /\ cursor_to_offset(args.after).v + 1 + args.first.v <= Len(Collection)
    /\ Len(Nodes) = args.first.v
    /\ Offsets[1] = cursor_to_offset(args.after).v + 1

----------------------------------------------------------------------------
(* connection_resolver: the parent resolver's result, awaited if thenable. *)

PyPromise == [t |-> "Promise", v |-> 0]

is_thenable_never(r) == FALSE

\* promise.is_thenable(resolved)
is_thenable(r) == r.t = "Promise"

\* the promise connection_resolver returns: Promise.resolve(resolved).then(on_resolve)
Chained(state, value) == [t |-> "Promise", state |-> state, v |-> value]

InitResolve ==
    /\ filter = <<>> /\ operator = "and_" /\ clauses = NotCalled /\ leaf = NotCalled
    /\ NoModuleState
    /\ cls = Unsorted
    /\ args \in {[first |-> f, last |-> Absent, after |-> Absent, before |-> Absent,
                  where |-> Absent, filter |-> Absent] :
                    f \in {Absent} \cup {PyInt(k) : k \in 1..MaxCount}}
    /\ required = {}
    /\ store \in Tables
    /\ resolved \in ResolvedValues \cup {PyPromise}
    /\ promise \in IF resolved = PyPromise
                   THEN {[state |-> "pending"], [state |-> "rejected"]}
                        \cup {[state |-> "fulfilled", value |-> x] : x \in ResolvedValues}
                   ELSE {[state |-> "none"]}
    /\ pc = "idle"
    /\ connection = NotCalled
    /\ returned = NotCalled
    /\ calls = <<>>

\* connection_resolver when the resolver's result is no thenable:
\* return on_resolve(resolved)
ConnectionResolverSync ==
    /\ pc = "idle"
    /\ ~is_thenable(resolved)
    /\ \E order \in ListOrders(resolved) :
          connection' = resolve_connection(cls, model, store, args, required,
                                           resolved, order)
    /\ returned' = connection'
    /\ calls' = Append(calls, [value |-> resolved, promise |-> promise.state])
    /\ pc' = "done"
    /\ UNCHANGED <<cls, args, required, store, resolved, promise>>
    /\ UNCHANGED whereVars
    /\ UNCHANGED moduleVars

\* connection_resolver when the resolver's result is thenable:
\* return Promise.resolve(resolved).then(on_resolve)
ConnectionResolverThenable ==
    /\ pc = "idle"
    /\ is_thenable(resolved)
    /\ returned' = Return(Chained("pending", PyNone))
    /\ pc' = "awaiting"
    /\ UNCHANGED <<cls, args, required, store, resolved, promise, connection, calls>>
    /\ UNCHANGED whereVars
    /\ UNCHANGED moduleVars

\* the resolver's promise is fulfilled with a value
PromiseFulfil ==
    /\ pc = "awaiting"
    /\ promise.state = "pending"
    /\ \E x \in ResolvedValues : promise' = [state |-> "fulfilled", value |-> x]
    /\ UNCHANGED <<cls, args, required, store, resolved, pc, connection, returned, calls>>
    /\ UNCHANGED whereVars
    /\ UNCHANGED moduleVars

\* the resolver's promise is rejected
PromiseReject ==
    /\ pc = "awaiting"
    /\ promise.state = "pending"
    /\ promise' = [state |-> "rejected"]
    /\ UNCHANGED <<cls, args, required, store, resolved, pc, connection, returned, calls>>
    /\ UNCHANGED whereVars
    /\ UNCHANGED moduleVars

\* the then-callback: on_resolve(value) once the promise is fulfilled; its
\* result settles the promise connection_resolver returned
OnResolve ==
    /\ pc = "awaiting"
    /\ promise.state = "fulfilled"
    /\ \E order \in ListOrders(promise.value) :
          connection' = resolve_connection(cls, model, store, args, required,
                                           promise.value, order)
    /\ returned' = Return(IF connection'.exc = "none"
                          THEN Chained("fulfilled", connection'.value)
                          ELSE Chained("rejected", PyNone))
    /\ calls' = Append(calls, [value |-> promise.value, promise |-> promise.state])
    /\ pc' = "done"
    /\ UNCHANGED <<cls, args, required, store, resolved, promise>>
    /\ UNCHANGED whereVars
    /\ UNCHANGED moduleVars

\* a rejection passes on_resolve by and rejects the returned promise
OnReject ==
    /\ pc = "awaiting"
    /\ promise.state = "rejected"
    /\ returned' = Return(Chained("rejected", PyNone))
    /\ pc' = "done"
    /\ UNCHANGED <<cls, args, required, store, resolved, promise, connection, calls>>
    /\ UNCHANGED whereVars
    /\ UNCHANGED moduleVars

NextResolve ==
    \/ ConnectionResolverSync
    \/ ConnectionResolverThenable
    \/ PromiseFulfil
    \/ PromiseReject
    \/ OnResolve
    \/ OnReject

SpecResolve == InitResolve /\ [][NextResolve]_vars

----------------------------------------------------------------------------
(* C8: pagination never observes a pending value.                          *)

Awaitable == resolved.t = "Promise"

\* C8: with a thenable result, resolve_connection is not invoked before the
\* promise is fulfilled, it is handed the fulfilled value and never a
\* promise, and the call returns a thenable, which resolves to the
\* connection; with a concrete result, resolve_connection runs inside the
\* call, on that result, and its connection is what the call returns.
C8_AwaitedThenPaginated ==
    /\ \A i \in DOMAIN calls : calls[i].value.t # "Promise"
    /\ Len(calls) <= 1
    /\ Awaitable =>
          /\ (promise.state # "fulfilled" \/ pc # "done") =>
                (connection = NotCalled /\ calls = <<>>)
          /\ calls # <<>> =>
                (calls[1].promise = "fulfilled" /\ calls[1].value = promise.value)
          /\ returned # NotCalled =>
                (returned.exc = "none" /\ returned.value.t = "Promise")
          /\ (connection # NotCalled /\ connection.exc = "none") =>
                returned = Return(Chained("fulfilled", connection.value))
          /\ (returned # NotCalled /\ returned.value.state = "fulfilled") =>
                (connection # NotCalled /\ connection.exc = "none")
    /\ ~Awaitable =>
          /\ pc \in {"idle", "done"}
          /\ returned = connection
          /\ (pc = "done") = (connection # NotCalled)
          /\ calls # <<>> => calls[1].value = resolved
          /\ (pc = "done") = (calls # <<>>)

\* a fulfilled promise's list was paginated and the promise returned
\* resolved to that connection
C8_Witness ==
    /\ Awaitable /\ pc = "done"
    /\ promise.state = "fulfilled" /\ promise.value.t = "list"
    /\ connection # NotCalled /\ connection.exc = "none"
    /\ Len(connection.value.edges) > 0
    /\ returned = Return(Chained("fulfilled", connection.value))

----------------------------------------------------------------------------
(* C9: the resolver's result decides whether a query is built.             *)

Resolved == connection # NotCalled /\ calls # <<>>

\* the (possibly awaited) result of the custom resolver
Given == calls[Len(calls)].value

Effects == {connection.effects[i] : i \in DOMAIN connection.effects}

\* the edges are the page of the collection that `first` asks for
PageOfCollection ==
    Nodes = SubSeq(Collection, 1,
                   IF IsInt(args.first) THEN Min({args.first.v, Len(Collection)})
                                        ELSE Len(Collection))

\* C9 as stated: the store is queried iff the resolver's result is None.
C9_StoreQueriedIffNone ==
    Resolved => ((Effects # {}) <=> (Given = PyNone))

\* C9 (amended): get_query is called iff the result is None, and then the
\* query is counted for the total length; a list, or a set made a list, is
\* paginated without any access to the store; a Query the resolver hands
\* over is counted and sliced, without get_query.  `iterable` and `length`
\* are the collection paginated and its total length.
C9_QueryBuiltIffNone ==
    Resolved =>
        /\ ("get_query" \in Effects) <=> (Given = PyNone)
        /\ connection.exc = "none"
        /\ connection.value.length = Len(Collection)
        /\ PageOfCollection
        /\ Given = PyNone =>
              /\ connection.effects = <<"get_query", "count", "slice">>
              /\ connection.value.iterable = Query(store)
        /\ Given.t = "list" =>
              /\ connection.effects = <<>>
              /\ connection.value.iterable = Given
        /\ Given.t = "set" =>
              /\ connection.effects = <<>>
              /\ connection.value.iterable.t = "list"
              /\ {Collection[i] : i \in DOMAIN Collection} = Given.v
              /\ Len(Collection) = Cardinality(Given.v)
        /\ Given.t = "Query" =>
              /\ connection.effects = <<"count", "slice">>
              /\ connection.value.iterable = Given

\* an awaited None made the field build and count its own query of a
\* table with rows
C9_Witness ==
    /\ Resolved /\ Awaitable /\ Given = PyNone
    /\ connection.exc = "none"
    /\ "get_query" \in Effects
    /\ connection.value.length = Len(store) /\ Len(store) > 0

----------------------------------------------------------------------------
(* The filtered field's resolve_connection, with required filters.         *)

\* the columns a field can declare required
RequiredColumns == {"a", "b"}

\* a `where` or `filter` argument: absent, empty, or bare integers for up
\* to MaxKeys columns
FilterArgs == {Absent, PyMap(<<>>)} \cup {PyMap(s) : s \in KeySeqs(IntEntries, MaxKeys)}

InitFiltered ==
    /\ filter = <<>> /\ operator = "and_" /\ clauses = NotCalled /\ leaf = NotCalled
    /\ NoModuleState
    /\ cls = Filtered
    /\ args \in {[first |-> f, last |-> Absent, after |-> Absent, before |-> Absent,
                  where |-> w, filter |-> fl] :
                    f \in {Absent, PyInt(1)}, w \in FilterArgs, fl \in FilterArgs}
    /\ required \in SUBSET RequiredColumns
    /\ store = Table(MaxLen)
    /\ resolved \in {PyNone, PyList(Table(1)), Query(Table(MaxLen))}
    /\ promise = [state |-> "none"]
    /\ pc = "idle"
    /\ connection = NotCalled
    /\ returned = NotCalled
    /\ calls = <<>>

NextFiltered == ResolveConnection

SpecFiltered == InitFiltered /\ [][NextFiltered]_vars

\* keys(F), F being the map given as the argument `filter`
SuppliedKeys == IF args.filter = Absent THEN {} ELSE Keys(args.filter.v)

\* C10: the filtered field's resolve_connection fails iff a required key
\* is not among the keys of the filter map, the error carries exactly the
\* missing keys, nothing is queried or paginated before it; with every
\* required key given, the collection is paginated.
C10_RequiredFilters ==
    (cls = Filtered /\ connection # NotCalled) =>
        /\ (connection.exc # "none") <=> (required \ SuppliedKeys # {})
        /\ (required \ SuppliedKeys # {}) =>
              /\ connection.exc = "Exception"
              /\ connection.payload = required \ SuppliedKeys
              /\ connection.effects = <<>>
        /\ (required \ SuppliedKeys = {}) =>
              /\ connection.exc = "none"
              /\ connection.value.length = Len(Collection)
              /\ PageOfCollection

\* a filter map with one of two required keys was given and the error
\* names the other
C10_Witness ==
    /\ cls = Filtered /\ connection # NotCalled
    /\ required = RequiredColumns
    /\ Cardinality(SuppliedKeys \cap required) = 1
    /\ connection.exc = "Exception"
    /\ connection.payload = required \ SuppliedKeys

----------------------------------------------------------------------------
(* get_query of the two field classes, with sort and keyword filters.      *)

\* utils.EnumValue: a sort enum's value, whose .value is the column spec
EnumValue(col, dir) == [t |-> "EnumValue", v |-> <<col, dir>>]

\* a structured filter instance: the filter_by keywords for its sqla_model
InputObject(kw) == [t |-> "SQLAlchemyInputObjectType", sqla_model |-> "Related", v |-> kw]

\* utils.get_query(model, context): the session's query of the model
SessionQuery(rows) == [t |-> "Query", v |-> rows, order_by |-> <<>>]

\* query.order_by(*criteria): a new query with the criteria appended
order_by(query, criteria) == [query EXCEPT !.order_by = @ \o criteria]

\* query.filter(criterion): a new query of the rows that satisfy it; the
\* query it is called on is left as it was
query_filter(query, criterion) ==
    [query EXCEPT !.v = SelectSeq(@, LAMBDA row : Selects(criterion, row))]

\* UnsortedSQLAlchemyConnectionField.get_query(model, info, sort, **args)
Unsorted_get_query(rows, sort) ==
    IF sort = PyNone THEN SessionQuery(rows)
    ELSE IF sort.t = "EnumValue" THEN order_by(SessionQuery(rows), <<sort.v>>)
    ELSE order_by(SessionQuery(rows), [i \in DOMAIN sort.v |-> sort.v[i].v])

\* the rows of the related model, as the session yields them
RelatedRows == [i \in 1..(MaxVal + 1) |-> [id |-> PyInt(i - 1), kind |-> PyInt(0)]]

\* q.filter_by(**filter_value): the rows with the given column values
filter_by(rows, kw) ==
    SelectSeq(rows, LAMBDA row : \A i \in DOMAIN kw : row[kw[i][1]] = kw[i][2])

\* Query.one(): the only row, or NoResultFound / MultipleResultsFound
one(rows) ==
    IF Len(rows) = 0 THEN Raise("NoResultFound")
    ELSE IF Len(rows) > 1 THEN Raise("MultipleResultsFound")
    ELSE Return(rows[1])

\* the body of the loop over the keyword filters for one keyword: the
\* related row is looked up, and query.filter(...) is called without its
\* result being assigned, so `query` stays what it was
kwarg_step(query, m, name, value) ==
    IF name \notin m THEN Return(query)
    ELSE IF value.t # "SQLAlchemyInputObjectType" THEN Return(query)
    ELSE IF one(filter_by(Unsorted_get_query(RelatedRows, PyNone).v, value.v)).exc # "none"
    THEN one(filter_by(Unsorted_get_query(RelatedRows, PyNone).v, value.v))
    ELSE Return(query)

RECURSIVE kwargs_loop(_, _, _, _)
\* for filter_name, filter_value in kwargs.items(): ...
kwargs_loop(query, m, kwargs, i) ==
    IF i > Len(kwargs) THEN Return(query)
    ELSE IF kwarg_step(query, m, kwargs[i][1], kwargs[i][2]).exc # "none"
    THEN kwarg_step(query, m, kwargs[i][1], kwargs[i][2])
    ELSE kwargs_loop(kwarg_step(query, m, kwargs[i][1], kwargs[i][2]).value, m, kwargs, i + 1)

\* if where: clause = where_clause(...); query = query.filter(clause)
apply_where(looped, clause, where) ==
    IF looped.exc # "none" THEN looped
    ELSE IF ~Truthy(where) THEN looped
    ELSE IF clause.exc # "none" THEN clause
    ELSE Return(query_filter(looped.value, clause.value))

\* SQLAlchemyFilteredConnectionField.get_query(model, info, where, sort,
\* group_by, order_by, **kwargs): the base query is built with sort=None
Filtered_get_query(m, rows, where, sort, kwargs) ==
    apply_where(kwargs_loop(Unsorted_get_query(rows, PyNone), m, kwargs, 1),
                IF Truthy(where) THEN where_clause(m, where.v, "and_") ELSE NotCalled,
                where)

\* the column specs a sort enum offers
SortSpecs == {EnumValue(col, dir) : col \in {"a", "b"}, dir \in {"asc", "desc"}}

\* a sort argument: absent, None, a bare value, or a list of values
SortArgs ==
    {Absent, PyNone} \cup SortSpecs
    \cup {PyList(l) : l \in UNION {[1..n -> SortSpecs] : n \in 0..MaxKeys}}

\* the keyword filters of a call: none, or one for an attribute of the
\* model or for another name, with a structured filter or a plain value
KwargValues ==
    {InputObject(<<<<"id", PyInt(k)>>>>) : k \in 0..(MaxVal + 1)}
    \cup {InputObject(<<<<"kind", PyInt(0)>>>>), PyInt(1)}

KwargArgs == {<<>>} \cup {<< <<n, v>> >> : n \in {"a", "reporter"}, v \in KwargValues}

InitQuery ==
    /\ filter = <<>> /\ operator = "and_" /\ clauses = NotCalled /\ leaf = NotCalled
    /\ NoModuleState
    /\ cls \in {Unsorted, Filtered}
    /\ args \in {[first |-> Absent, last |-> Absent, after |-> Absent, before |-> Absent,
                  where |-> w, filter |-> Absent, sort |-> so, kwargs |-> kw] :
                    w \in {Absent, PyMap(<<>>), PyMap(<< <<"b", PyInt(1)>> >>)},
                    so \in SortArgs, kw \in KwargArgs}
    /\ required = {}
    /\ store = Table(MaxLen)
    /\ resolved = PyNone
    /\ promise = [state |-> "none"]
    /\ pc = "idle"
    /\ connection = NotCalled
    /\ returned = NotCalled
    /\ calls = <<>>

\* query = cls.get_query(model, info, **args)
GetQuery ==
    /\ pc = "idle"
    /\ returned' = IF cls = Unsorted
                   THEN Return(Unsorted_get_query(store, Get(args.sort)))
                   ELSE Filtered_get_query(model, store, Get(args.where),
                                           Get(args.sort), args.kwargs)
    /\ pc' = "done"
    /\ UNCHANGED <<cls, args, required, store, resolved, promise, connection, calls>>
    /\ UNCHANGED whereVars
    /\ UNCHANGED moduleVars

NextQuery == GetQuery

SpecQuery == InitQuery /\ [][NextQuery]_vars

----------------------------------------------------------------------------
(* C11: ORDER BY follows the sort argument.                                *)

QueryBuilt == pc = "done" /\ returned # NotCalled /\ returned.exc = "none"

\* the column specs of a sort argument, left to right
GivenSpecs(sort) ==
    IF sort \in {Absent, PyNone} THEN <<>>
    ELSE IF sort.t = "EnumValue" THEN <<sort.v>>
    ELSE [i \in DOMAIN sort.v |-> sort.v[i].v]

\* C11: the query get_query returns, of either field class, is ordered by
\* exactly the column specs of `sort`, in their order, and by nothing
\* when `sort` is absent.
C11_OrderByAsGiven ==
    QueryBuilt => returned.value.order_by = GivenSpecs(args.sort)

\* what holds: the unsorted field's query is ordered as `sort` says, the
\* filtered field's query is never ordered
C11_OrderByOfUnsortedOnly ==
    QueryBuilt => returned.value.order_by =
                     (IF cls = Unsorted THEN GivenSpecs(args.sort) ELSE <<>>)

----------------------------------------------------------------------------
(* C12: keyword filters with a structured filter value.                    *)

\* the keyword filters that name an attribute of the model and carry a
\* structured filter
Correlated ==
    {i \in DOMAIN args.kwargs :
        /\ args.kwargs[i][1] \in model
        /\ args.kwargs[i][2].t = "SQLAlchemyInputObjectType"}

\* the row of the related model a structured filter matches
RelatedRowOf(i) == one(filter_by(RelatedRows, args.kwargs[i][2].v)).value

\* C12: the filtered field's query yields only rows whose attribute equals
\* the related row matched by the nested filter.
C12_RestrictedToRelatedRow ==
    (QueryBuilt /\ cls = Filtered) =>
        \A i \in Correlated : \A j \in DOMAIN returned.value.v :
            returned.value.v[j][args.kwargs[i][1]] = RelatedRowOf(i).id

\* what holds: the keyword filters leave the rows of the query as `where`
\* alone selects them
C12_KeywordFiltersRestrictNothing ==
    (QueryBuilt /\ cls = Filtered) =>
        returned.value.v = get_query(Filtered, model, store, args).value.v

----------------------------------------------------------------------------
(* The filter-shape caches: create_filter_argument and create_filter_field *)
(* called from several threads.  A thread can be preempted between the     *)
(* lookup of a name in a cache and the write of the class built for it.    *)

Threads == 1..MaxThreads

ModelClasses == {"Article", "Reporter"}

\* inspect(cls).columns.values(): the graphene types of the columns; a
\* column converted to a List (or Field) gets no filter field
ColumnsOf(c) == IF c = "Article" THEN <<"Int", "String">> ELSE <<"String", "List">>

ColumnTypes == {"Int", "String", "List"}

\* "{}Filter".format(...)
FilterName(x) == <<x, "Filter">>

\* d[k] = v
DictSet(d, k, v) == [n \in DOMAIN d \cup {k} |-> IF n = k THEN v ELSE d[n]]

\* type(name, (FilterField, InputObjectType), {}): a new class, distinct
\* from every class made by another call
NewClass(name, t) == [name |-> name, by |-> t]

\* Argument(argument_class)
Argument(class) == [t |-> "Argument", of |-> class]

\* Field(field_class)
Field(class) == [t |-> "Field", of |-> class]

Idle == [pc |-> "idle"]

InitCache ==
    /\ filter = <<>> /\ operator = "and_" /\ clauses = NotCalled /\ leaf = NotCalled
    /\ NoConnection
    /\ argument_cache = <<>>
    /\ field_cache = <<>>
    /\ threads = [t \in Threads |-> Idle]
    /\ connectionFactory = Unsorted
    /\ history = <<>>
    /\ _registry = <<>>

CacheFrame ==
    /\ UNCHANGED <<connectionFactory, history, _registry>>
    /\ UNCHANGED whereVars
    /\ UNCHANGED connVars

\* a thread calls create_filter_argument(cls)
CallCreateFilterArgument(t) ==
    /\ threads[t].pc = "idle"
    /\ \E c \in ModelClasses :
          threads' = [threads EXCEPT ![t] =
                         [pc |-> "argument_lookup", op |-> "create_filter_argument",
                          arg |-> c, columns |-> <<>>, made |-> {}]]
    /\ UNCHANGED <<argument_cache, field_cache>>
    /\ CacheFrame

\* a thread calls create_filter_field(column)
CallCreateFilterField(t) ==
    /\ threads[t].pc = "idle"
    /\ \E ty \in ColumnTypes :
          threads' = [threads EXCEPT ![t] =
                         [pc |-> "field_lookup", op |-> "create_filter_field",
                          arg |-> ty, columns |-> <<ty>>, made |-> {}]]
    /\ UNCHANGED <<argument_cache, field_cache>>
    /\ CacheFrame

\* the thread's position once its call has returned `result`
Done(th, result) ==
    [pc |-> "done", op |-> th.op, arg |-> th.arg, made |-> th.made, result |-> result]

\* if name in argument_cache: return Argument(argument_cache[name]);
\* otherwise the columns' filter fields are created
ArgumentLookup(t) ==
    /\ threads[t].pc = "argument_lookup"
    /\ threads' = [threads EXCEPT ![t] =
          IF FilterName(threads[t].arg) \in DOMAIN argument_cache
          THEN Done(threads[t], Argument(argument_cache[FilterName(threads[t].arg)]))
          ELSE [threads[t] EXCEPT !.pc = "field_lookup",
                                  !.columns = ColumnsOf(threads[t].arg)]]
    /\ UNCHANGED <<argument_cache, field_cache>>
    /\ CacheFrame

\* the thread's position once create_filter_field has returned `field`
AfterField(th, field) ==
    IF th.op = "create_filter_field" THEN Done(th, field)
    ELSE [th EXCEPT !.columns = Tail(th.columns),
                    !.pc = IF Len(th.columns) > 1 THEN "field_lookup"
                                                  ELSE "argument_write"]

\* the name of the filter field of the column the thread is at
FieldName(th) == FilterName(Head(th.columns))

\* create_filter_field up to the lookup: None for a List (or Field),
\* Field(field_cache[name]) for a name in field_cache
FieldLookup(t) ==
    /\ threads[t].pc = "field_lookup"
    /\ threads' = [threads EXCEPT ![t] =
          IF Head(threads[t].columns) = "List" THEN AfterField(threads[t], PyNone)
          ELSE IF FieldName(threads[t]) \in DOMAIN field_cache
          THEN AfterField(threads[t], Field(field_cache[FieldName(threads[t])]))
          ELSE [threads[t] EXCEPT !.pc = "field_write"]]
    /\ UNCHANGED <<argument_cache, field_cache>>
    /\ CacheFrame

\* field_class = type(name, ...); field_cache[name] = field_class;
\* return Field(field_class)
FieldWrite(t) ==
    /\ threads[t].pc = "field_write"
    /\ field_cache' = DictSet(field_cache, FieldName(threads[t]),
                              NewClass(FieldName(threads[t]), t))
    /\ threads' = [threads EXCEPT ![t] =
          AfterField([threads[t] EXCEPT !.made = threads[t].made \cup {FieldName(threads[t])}],
                     Field(NewClass(FieldName(threads[t]), t)))]
    /\ UNCHANGED argument_cache
    /\ CacheFrame

\* argument_class = type(name, ...); argument_cache[name] = argument_class;
\* return Argument(argument_class)
ArgumentWrite(t) ==
    /\ threads[t].pc = "argument_write"
    /\ argument_cache' = DictSet(argument_cache, FilterName(threads[t].arg),
                                 NewClass(FilterName(threads[t].arg), t))
    /\ threads' = [threads EXCEPT ![t] =
          Done([threads[t] EXCEPT !.made = threads[t].made \cup {FilterName(threads[t].arg)}],
               Argument(NewClass(FilterName(threads[t].arg), t)))]
    /\ UNCHANGED field_cache
    /\ CacheFrame

NextCache ==
    \E t \in Threads :
        \/ CallCreateFilterArgument(t)
        \/ CallCreateFilterField(t)
        \/ ArgumentLookup(t)
        \/ FieldLookup(t)
        \/ FieldWrite(t)
        \/ ArgumentWrite(t)

SpecCache == InitCache /\ [][NextCache]_vars

----------------------------------------------------------------------------
(* C13: the caches under concurrent calls.                                 *)

\* the threads that built the shape of a name
Builders(name) == {t \in Threads : threads[t].pc # "idle" /\ name \in threads[t].made}

\* the calls of create_filter_argument that have returned
Returned == {t \in Threads : threads[t].pc = "done"}

\* the cache a call's result comes from
CacheOf(t) ==
    IF threads[t].op = "create_filter_argument" THEN argument_cache ELSE field_cache

\* C13: the shape of a name is built at most once, and every call for the
\* name has returned an argument (a field) that wraps the shape the cache
\* holds for it, so no entry was replaced after a call returned it.
C13_BuiltOnceAndShared ==
    /\ \A c \in ModelClasses \cup ColumnTypes : Cardinality(Builders(FilterName(c))) <= 1
    /\ \A t \in Returned :
          threads[t].result # PyNone =>
             /\ FilterName(threads[t].arg) \in DOMAIN CacheOf(t)
             /\ threads[t].result.of = CacheOf(t)[FilterName(threads[t].arg)]

\* what holds under every interleaving: an entry is never removed
C13_EntriesNeverRemoved ==
    [][/\ DOMAIN argument_cache \subseteq DOMAIN argument_cache'
       /\ DOMAIN field_cache \subseteq DOMAIN field_cache']_vars

----------------------------------------------------------------------------
(* The schema types the factory, the constructor and the registry handle.  *)

\* a SQLAlchemyObjectType (or another class) with its Meta model/registry
ObjectType(name, kind, m, reg) ==
    [name |-> name, kind |-> kind, model |-> m, registry |-> reg]

ArticleType == ObjectType("ArticleType", "SQLAlchemyObjectType", "Article", "self")
ArticleType2 == ObjectType("ArticleType2", "SQLAlchemyObjectType", "Article", "self")
ReporterType == ObjectType("ReporterType", "SQLAlchemyObjectType", "Reporter", "self")
ForeignType == ObjectType("ForeignType", "SQLAlchemyObjectType", "Reporter", "other")
PlainType == ObjectType("PlainType", "ObjectType", "none", "none")

\* a Connection class over a node type
ConnectionType(name, node) == [name |-> name, kind |-> "Connection", node |-> node]

ArticleConnection == ConnectionType("ArticleConnection", ArticleType)
PlainConnection == ConnectionType("PlainConnection", PlainType)

\* issubclass(type, Connection)
IsConnection(type) == type # PyNone /\ type.kind = "Connection"

\* dict without a key: del kwargs[k]
DictDel(d, k) == [n \in DOMAIN d \ {k} |-> d[n]]

----------------------------------------------------------------------------
(* SQLAlchemyConnectionField.__init__.                                     *)

SQLAlchemyConnectionField == "SQLAlchemyConnectionField"

\* type.Edge.node._type.sort_argument(): the sort argument of a node type
\* with a model; a node type without one has no such attribute
sort_argument(node) ==
    IF node.kind = "SQLAlchemyObjectType"
    THEN Return(Argument(<<node.name, "SortEnum">>))
    ELSE Raise("AttributeError")

\* ConnectionField.__init__(type, *args, **kwargs): the field of the class
ConnectionField(c, type, kwargs) == [cls |-> c, type |-> type, args |-> kwargs]

sort_is_none_never(kwargs) == FALSE

\* "sort" in kwargs and kwargs["sort"] is None
sort_is_none(kwargs) == "sort" \in DOMAIN kwargs /\ kwargs["sort"] = PyNone

\* SQLAlchemyConnectionField(type, **kwargs)
SQLAlchemyConnectionField_init(type, kwargs) ==
    IF "sort" \notin DOMAIN kwargs /\ type = PyNone
    THEN [exc |-> "TypeError", names |-> PyNone]  \* issubclass(None, Connection)
    ELSE IF "sort" \notin DOMAIN kwargs /\ IsConnection(type)
    THEN IF sort_argument(type.node).exc \in {"AttributeError", "TypeError"}
         THEN [exc |-> "TypeError", names |-> type.name]
         ELSE Return(ConnectionField(SQLAlchemyConnectionField, type,
                        DictSet(kwargs, "sort", sort_argument(type.node).value)))
    ELSE IF sort_is_none(kwargs)
         THEN Return(ConnectionField(SQLAlchemyConnectionField, type,
                                     DictDel(kwargs, "sort")))
         ELSE Return(ConnectionField(SQLAlchemyConnectionField, type, kwargs))

----------------------------------------------------------------------------
(* The connection field factory of the module.                             *)

TestConnectionField == "_TestSQLAlchemyConnectionField"

\* __connectionFactory(_type, **field_kwargs): the class is called
Construct(factory, type, kwargs) ==
    IF factory = SQLAlchemyConnectionField
    THEN SQLAlchemyConnectionField_init(type, kwargs)
    ELSE Return(ConnectionField(factory, type, kwargs))

register_keeps_first(current, factoryMethod) ==
    IF current = Unsorted THEN factoryMethod ELSE current

\* registerConnectionFieldFactory: __connectionFactory = factoryMethod
registerConnectionFieldFactory(current, factoryMethod) == factoryMethod

\* unregisterConnectionFieldFactory:
\* __connectionFactory = UnsortedSQLAlchemyConnectionField
unregisterConnectionFieldFactory(current) == Unsorted

----------------------------------------------------------------------------
(* registry.py: Registry.register and Registry.get_type_for_model.         *)

\* self._registry.get(model)
get_type_for_model(reg, m) == IF m \in DOMAIN reg THEN reg[m] ELSE PyNone

associated_never(reg, obj_type) == FALSE

\* not (self.get_type_for_model(obj_type._meta.model) in [None, obj_type])
associated_with_another(reg, obj_type) ==
    get_type_for_model(reg, obj_type.model) \notin {PyNone, obj_type}

\* Registry.register(obj_type): what it raises, and the _registry it leaves
register(reg, obj_type) ==
    IF obj_type.kind # "SQLAlchemyObjectType"
    THEN [exc |-> "TypeError", registry |-> reg]
    ELSE IF obj_type.registry # "self"
    THEN [exc |-> "AssertionError", registry |-> reg]
    ELSE IF associated_with_another(reg, obj_type)
    THEN [exc |-> "AssertionError", registry |-> reg]
    ELSE [exc |-> "none", registry |-> DictSet(reg, obj_type.model, obj_type)]

----------------------------------------------------------------------------
(* Calls on the module, in any order.                                      *)

Factories == {SQLAlchemyConnectionField, TestConnectionField}

Models == {"Article", "Reporter", "Pet"}

RegisteredTypes == {ArticleType, ArticleType2, ReporterType, ForeignType, PlainType}

FieldTypes == {ArticleConnection, PlainConnection, ArticleType}

\* the keyword arguments of a construction: none, sort=None, sort=<argument>
FieldKwargs ==
    {<<>>, [k \in {"sort"} |-> PyNone],
     [k \in {"sort"} |-> Argument(<<"Custom", "SortEnum">>)]}

\* a call made: its name, its argument(s), what it returned or raised
Called(op, arg, result) == [op |-> op, arg |-> arg, result |-> result]

InitModule ==
    /\ filter = <<>> /\ operator = "and_" /\ clauses = NotCalled /\ leaf = NotCalled
    /\ NoConnection
    /\ argument_cache = <<>>
    /\ field_cache = <<>>
    /\ threads = <<>>
    /\ connectionFactory = Unsorted
    /\ history = <<>>
    /\ _registry = <<>>

ModuleFrame ==
    /\ UNCHANGED <<argument_cache, field_cache, threads>>
    /\ UNCHANGED whereVars
    /\ UNCHANGED <<cls, args, required, store, resolved, promise, pc, connection, calls>>

RegisterConnectionFieldFactory ==
    /\ Len(history) < MaxCalls
    /\ \E f \in Factories :
          /\ connectionFactory' = registerConnectionFieldFactory(connectionFactory, f)
          /\ history' = Append(history, Called("registerConnectionFieldFactory", f, Return(PyNone)))
    /\ returned' = Return(PyNone)
    /\ UNCHANGED _registry
    /\ ModuleFrame

UnregisterConnectionFieldFactory ==
    /\ Len(history) < MaxCalls
    /\ connectionFactory' = unregisterConnectionFieldFactory(connectionFactory)
    /\ history' = Append(history, Called("unregisterConnectionFieldFactory", PyNone, Return(PyNone)))
    /\ returned' = Return(PyNone)
    /\ UNCHANGED _registry
    /\ ModuleFrame

\* default_connection_field_factory(relationship, registry): the field of
\* the type registered for the relationship's model
DefaultConnectionFieldFactory ==
    /\ Len(history) < MaxCalls
    /\ \E m \in Models :
          /\ returned' = Construct(connectionFactory, get_type_for_model(_registry, m), <<>>)
          /\ history' = Append(history, Called("default_connection_field_factory", m, returned'))
    /\ UNCHANGED <<connectionFactory, _registry>>
    /\ ModuleFrame

\* createConnectionField(_type, **field_kwargs)
CreateConnectionField ==
    /\ Len(history) < MaxCalls
    /\ \E type \in {ArticleConnection, ArticleType} :
          /\ returned' = Construct(connectionFactory, type, <<>>)
          /\ history' = Append(history, Called("createConnectionField", type, returned'))
    /\ UNCHANGED <<connectionFactory, _registry>>
    /\ ModuleFrame

\* SQLAlchemyConnectionField(type, **kwargs)
NewSQLAlchemyConnectionField ==
    /\ Len(history) < MaxCalls
    /\ \E type \in FieldTypes, kwargs \in FieldKwargs :
          /\ returned' = SQLAlchemyConnectionField_init(type, kwargs)
          /\ history' = Append(history, Called("SQLAlchemyConnectionField",
                                               <<type, kwargs>>, returned'))
    /\ UNCHANGED <<connectionFactory, _registry>>
    /\ ModuleFrame

\* registry.register(obj_type)
RegistryRegister ==
    /\ Len(history) < MaxCalls
    /\ \E obj_type \in RegisteredTypes :
          /\ _registry' = register(_registry, obj_type).registry
          /\ returned' = [exc |-> register(_registry, obj_type).exc, value |-> PyNone]
          /\ history' = Append(history, Called("register", obj_type, returned'))
    /\ UNCHANGED connectionFactory
    /\ ModuleFrame

\* registry.get_type_for_model(model)
RegistryGetTypeForModel ==
    /\ Len(history) < MaxCalls
    /\ \E m \in Models :
          /\ returned' = Return(get_type_for_model(_registry, m))
          /\ history' = Append(history, Called("get_type_for_model", m, returned'))
    /\ UNCHANGED <<connectionFactory, _registry>>
    /\ ModuleFrame

NextModule ==
    \/ RegisterConnectionFieldFactory
    \/ UnregisterConnectionFieldFactory
    \/ DefaultConnectionFieldFactory
    \/ CreateConnectionField
    \/ NewSQLAlchemyConnectionField
    \/ RegistryRegister
    \/ RegistryGetTypeForModel

SpecModule == InitModule /\ [][NextModule]_vars

----------------------------------------------------------------------------
(* C14: the factory in force.                                              *)

FactoryCalls == {"registerConnectionFieldFactory", "unregisterConnectionFieldFactory"}

BuilderCalls == {"default_connection_field_factory", "createConnectionField"}

\* the calls before the i-th
Before(i) == SubSeq(history, 1, i - 1)

\* the factory passed to the last register call of h, when no unregister
\* call came after it; UnsortedSQLAlchemyConnectionField otherwise
InForce(h) ==
    IF \A i \in DOMAIN h : h[i].op \notin FactoryCalls THEN Unsorted
    ELSE LET last == Max({i \in DOMAIN h : h[i].op \in FactoryCalls})
         IN IF h[last].op = "registerConnectionFieldFactory" THEN h[last].arg
            ELSE Unsorted

\* C14: every field built by default_connection_field_factory or by
\* createConnectionField is built with the factory of the most recent
\* register call not followed by an unregister call, and with
\* UnsortedSQLAlchemyConnectionField initially and after an unregister.
C14_FactoryInForce ==
    /\ connectionFactory = InForce(history)
    /\ \A i \in DOMAIN history :
          history[i].op \in BuilderCalls =>
             IF history[i].result.exc = "none"
             THEN history[i].result.value.cls = InForce(Before(i))
             ELSE InForce(Before(i)) = SQLAlchemyConnectionField

\* a factory was registered, then unregistered, and the field built
\* afterwards is an UnsortedSQLAlchemyConnectionField
C14_Witness ==
    /\ Len(history) = 3
    /\ history[1].op = "registerConnectionFieldFactory"
    /\ history[2].op = "unregisterConnectionFieldFactory"
    /\ history[3].op \in BuilderCalls
    /\ history[3].result.exc = "none"
    /\ history[3].result.value.cls = Unsorted

----------------------------------------------------------------------------
(* C15: the sort argument of a SQLAlchemyConnectionField.                  *)

Constructions == {i \in DOMAIN history : history[i].op = "SQLAlchemyConnectionField"}

\* C15: constructed on a connection type without `sort`, the field gets
\* the sort argument of the connection's node type, or the construction
\* raises TypeError naming the connection type when the node type has no
\* model; constructed with sort=None it is built, without a `sort`
\* argument.
C15_SortArgumentDerived ==
    \A i \in Constructions :
        /\ (IsConnection(history[i].arg[1]) /\ "sort" \notin DOMAIN history[i].arg[2]) =>
              IF history[i].arg[1].node.model # "none"
              THEN /\ history[i].result.exc = "none"
                   /\ "sort" \in DOMAIN history[i].result.value.args
                   /\ history[i].result.value.args["sort"] =
                         Argument(<<history[i].arg[1].node.name, "SortEnum">>)
              ELSE /\ history[i].result.exc = "TypeError"
                   /\ history[i].result.names = history[i].arg[1].name
        /\ ("sort" \in DOMAIN history[i].arg[2] /\ history[i].arg[2]["sort"] = PyNone) =>
              /\ history[i].result.exc = "none"
              /\ "sort" \notin DOMAIN history[i].result.value.args

\* a field on a connection whose node has no model was constructed without
\* `sort`, which raised, and with sort=None, which did not
C15_Witness ==
    \E i, j \in Constructions :
        /\ history[i].arg = <<PlainConnection, <<>> >>
        /\ history[i].result.exc = "TypeError"
        /\ history[i].result.names = "PlainConnection"
        /\ history[j].arg[1] = PlainConnection
        /\ "sort" \in DOMAIN history[j].arg[2] /\ history[j].arg[2]["sort"] = PyNone
        /\ history[j].result.exc = "none"

----------------------------------------------------------------------------
(* C16: one schema type per model.                                         *)

\* the types the register calls of h have associated with the model m
Associated(h, m) ==
    {h[i].arg : i \in {j \in DOMAIN h : /\ h[j].op = "register"
                                        /\ h[j].result.exc = "none"
                                        /\ h[j].arg.model = m}}

\* C16: a model is associated with at most one type; a register call for
\* a model associated with another type fails, and the registry is what
\* the successful calls made it; get_type_for_model returns the type
\* associated, or None for a model no call has registered.
C16_OneTypePerModel ==
    /\ \A m \in Models : Cardinality(Associated(history, m)) <= 1
    /\ DOMAIN _registry = {m \in Models : Associated(history, m) # {}}
    /\ \A m \in DOMAIN _registry : _registry[m] \in Associated(history, m)
    /\ \A i \in DOMAIN history :
          /\ (/\ history[i].op = "register"
              /\ Associated(Before(i), history[i].arg.model) # {}
              /\ history[i].arg \notin Associated(Before(i), history[i].arg.model))
             => history[i].result.exc # "none"
          /\ history[i].op = "get_type_for_model" =>
                IF Associated(Before(i), history[i].arg) = {}
                THEN history[i].result.value = PyNone
                ELSE history[i].result.value \in Associated(Before(i), history[i].arg)

\* a type was registered for a model, a second type for the same model
\* was refused, and the model's type is still the first
C16_Witness ==
    /\ Len(history) = 3
    /\ history[1] = Called("register", ArticleType, Return(PyNone))
    /\ history[2].op = "register" /\ history[2].arg = ArticleType2
    /\ history[2].result.exc = "AssertionError"
    /\ history[3] = Called("get_type_for_model", "Article", Return(ArticleType))
    /\ _registry["Article"] = ArticleType

====
